---- MODULE Spec2Model ----
(***************************************************************************)
(* Model of the Figma -> Flutter style generators:                         *)
(*   main.py                                   (whole-file pipeline)       *)
(*   import_colors_and_text_font_styles_by_id.py  (node-scoped pipeline)   *)
(* Strings that the code builds (hex codes, style keys, style names) are   *)
(* modelled as sequences of one-character strings, so that formatting and  *)
(* concatenation are computed and not assumed injective.                   *)
(***************************************************************************)
EXTENDS Integers, Sequences, FiniteSets, TLC

VARIABLES script, response, pc, err, reported_keys, root_node, colors, text_styles,
          unique_styles, colors_file, styles_file, rgb_in, hex_out

vars == <<script, response, pc, err, reported_keys, root_node, colors, text_styles,
          unique_styles, colors_file, styles_file, rgb_in, hex_out>>

(***************************************************************************)
(* Bounds of the model.                                                    *)
(***************************************************************************)
\* greatest number of children of the root of an input tree
MaxChildren == 2
\* colour channels of the converter check are the values n / 2^GridBits
GridBits == 3

(***************************************************************************)
(* Program constants.                                                      *)
(***************************************************************************)
NODE_ID == "node_id"
DefaultFontWeight == 400
DefaultFontSize == 14
HttpOk == 200
ChannelScale == 255

FontNotFound == <<"F","o","n","t","N","o","t","F","o","u","n","d">>
DefaultColor == <<"0","0","0","0","0","0">>

(***************************************************************************)
(* Characters and number formatting.                                       *)
(***************************************************************************)
HexDigits == <<"0","1","2","3","4","5","6","7","8","9","A","B","C","D","E","F">>
DecDigits == <<"0","1","2","3","4","5","6","7","8","9">>

\* format(v, "X"): uppercase hexadecimal, no padding
RECURSIVE FormatHex(_)
FormatHex(v) ==
    IF v < 16 THEN <<HexDigits[v + 1]>>
    ELSE FormatHex(v \div 16) \o <<HexDigits[(v % 16) + 1]>>

\* "{:02X}": FormatHex padded with zeros to a width of at least 2
Format02X(v) ==
    LET s == FormatHex(v) IN IF Len(s) < 2 THEN <<"0">> \o s ELSE s

\* str(n) of a non-negative integer
RECURSIVE FormatInt(_)
FormatInt(n) ==
    IF n < 10 THEN <<DecDigits[n + 1]>>
    ELSE FormatInt(n \div 10) \o <<DecDigits[(n % 10) + 1]>>

\* Python's round() of the non-negative rational n/d: nearest integer, ties
\* to the even one
Round(n, d) ==
    LET q == n \div d
        r == n % d
    IN  IF 2 * r < d THEN q
        ELSE IF 2 * r > d THEN q + 1
        ELSE IF q % 2 = 0 THEN q ELSE q + 1

\* a channel value is the rational ch[1] / ch[2]

\* mutation of rgb_to_hex: the channels are scaled by 256
ScaledRgb256(r, g, b) ==
    Format02X(Round(256 * r[1], r[2])) \o Format02X(Round(256 * g[1], g[2]))
        \o Format02X(Round(256 * b[1], b[2]))

rgb_to_hex(r, g, b) ==
    Format02X(Round(ChannelScale * r[1], r[2]))
        \o Format02X(Round(ChannelScale * g[1], g[2]))
        \o Format02X(Round(ChannelScale * b[1], b[2]))

rgba_to_hex(rgba) ==
    LET r == Round(ChannelScale * rgba.r[1], rgba.r[2])
        g == Round(ChannelScale * rgba.g[1], rgba.g[2])
        b == Round(ChannelScale * rgba.b[1], rgba.b[2])
    IN  Format02X(r) \o Format02X(g) \o Format02X(b)

(***************************************************************************)
(* JSON values of the response.  A style field is a value                  *)
(* [t, s, n, d]: t = "absent" (key missing), "str" (the characters         *)
(* s) or "num" (the rational n/d).                                         *)
(***************************************************************************)
Absent == [t |-> "absent", s |-> <<>>, n |-> 0, d |-> 1]
JStr(s) == [t |-> "str", s |-> s, n |-> 0, d |-> 1]
JNum(n, d) == [t |-> "num", s |-> <<>>, n |-> n, d |-> d]

\* Python truthiness of a JSON value ("if not fontFamily")
Truthy(v) ==
    \/ v.t = "str" /\ v.s # <<>>
    \/ v.t = "num" /\ v.n # 0

\* dict.get(key, default)
Get(v, default) == IF v.t = "absent" THEN default ELSE v

IsDecimal(s) == s # <<>> /\ \A i \in 1..Len(s) : \E k \in 1..10 : DecDigits[k] = s[i]

RECURSIVE ParseDecimal(_)
ParseDecimal(s) ==
    IF s = <<>> THEN 0
    ELSE 10 * ParseDecimal(SubSeq(s, 1, Len(s) - 1))
           + ((CHOOSE k \in 1..10 : DecDigits[k] = s[Len(s)]) - 1)

\* int(v): [ok |-> FALSE] stands for the ValueError / TypeError that int raises
ToInt(v) ==
    CASE v.t = "num" -> [ok |-> TRUE, val |-> v.n \div v.d]
      [] v.t = "str" /\ IsDecimal(v.s) -> [ok |-> TRUE, val |-> ParseDecimal(v.s)]
      [] OTHER -> [ok |-> FALSE, val |-> 0]

\* the characters that the regular expression \W+ leaves in place
WordChars ==
    {DecDigits[k] : k \in 1..10} \cup {"_"}
        \cup {"A","B","C","D","E","F","N","R","S","a","b","d","e","n","o","r","s","t","u"}

\* re.sub(r'\W+', '', s)
RECURSIVE Sanitize(_)
Sanitize(s) ==
    IF s = <<>> THEN <<>>
    ELSE (IF Head(s) \in WordChars THEN <<Head(s)>> ELSE <<>>) \o Sanitize(Tail(s))

(***************************************************************************)
(* parse_text_style.  The result is [fontFamily, fontWeight, fontSize,     *)
(* color]; every path through the except clause returns FallbackStyle.     *)
(***************************************************************************)
FallbackStyle ==
    [fontFamily |-> JStr(FontNotFound), fontWeight |-> DefaultFontWeight,
     fontSize |-> DefaultFontSize, color |-> DefaultColor]

\* next((f for f in fills if f['type'] == "SOLID"), None); raised when a fill
\* met before the first SOLID one has no 'type' key
RECURSIVE FirstSolid(_)
FirstSolid(fills) ==
    IF fills = <<>> THEN [raised |-> FALSE, found |-> FALSE, fill |-> 0]
    ELSE IF ~Head(fills).hasType THEN [raised |-> TRUE, found |-> FALSE, fill |-> 0]
    ELSE IF Head(fills).type = "SOLID"
         THEN [raised |-> FALSE, found |-> TRUE, fill |-> Head(fills)]
    ELSE FirstSolid(Tail(fills))

\* mutation of parse_text_style: on an error only the failing field is defaulted
KeepPartialOnError(node) ==
    LET style == node.style
        fontFamily == IF node.hasStyle /\ Truthy(style.fontFamily)
                      THEN style.fontFamily ELSE JStr(FontNotFound)
        fontWeight == IF node.hasStyle THEN Get(style.fontWeight, JNum(DefaultFontWeight, 1)).n
                      ELSE DefaultFontWeight
        size == IF node.hasStyle THEN ToInt(Get(style.fontSize, JNum(DefaultFontSize, 1)))
                ELSE [ok |-> FALSE, val |-> 0]
        fills == IF node.hasFills THEN node.fills ELSE <<>>
        solid == FirstSolid(fills)
    IN  [fontFamily |-> fontFamily, fontWeight |-> fontWeight,
         fontSize |-> IF size.ok THEN size.val ELSE DefaultFontSize,
         color |-> IF solid.found /\ solid.fill.hasColor
                   THEN rgba_to_hex(solid.fill.color) ELSE DefaultColor]

parse_text_style(node) ==
    IF ~node.hasStyle THEN FallbackStyle                \* node['style'] raises
    ELSE
      LET style == node.style
          fontFamily == IF ~Truthy(style.fontFamily)
                        THEN JStr(FontNotFound) ELSE style.fontFamily
          fontWeight == Get(style.fontWeight, JNum(DefaultFontWeight, 1)).n
          size == ToInt(Get(style.fontSize, JNum(DefaultFontSize, 1)))
          fills == IF node.hasFills THEN node.fills ELSE <<>>
          solid == FirstSolid(fills)
      IN  IF ~size.ok THEN FallbackStyle                \* int(...) raises
          ELSE IF solid.raised THEN FallbackStyle       \* f['type'] raises
          ELSE IF ~solid.found THEN
              [fontFamily |-> fontFamily, fontWeight |-> fontWeight,
               fontSize |-> size.val, color |-> DefaultColor]
          ELSE IF ~solid.fill.hasColor THEN FallbackStyle   \* solid_fill['color'] raises
          ELSE
              [fontFamily |-> fontFamily, fontWeight |-> fontWeight,
               fontSize |-> size.val, color |-> rgba_to_hex(solid.fill.color)]

(***************************************************************************)
(* parse_node, the closure of process_figma_file.  acc is the triple of    *)
(* collections the closure mutates plus ok, which is FALSE once an         *)
(* exception has left the walk (nothing in process_figma_file catches it). *)
(***************************************************************************)
\* mutation of Upsert: the mapping is rebound instead of updated
UpsertRebinds(cols, color_name, color_value) ==
    [k \in {color_name} |-> color_value]

\* colors[color_name] = color_value
Upsert(cols, color_name, color_value) ==
    [k \in (DOMAIN cols) \cup {color_name} |->
        IF k = color_name THEN color_value ELSE cols[k]]

\* the loop over node["fills"]
RECURSIVE FillLoop(_, _)
FillLoop(fills, cols) ==
    IF fills = <<>> THEN [ok |-> TRUE, colors |-> cols]
    ELSE
      LET fill == Head(fills) IN
      IF ~fill.hasType THEN [ok |-> FALSE, colors |-> cols]        \* KeyError 'type'
      ELSE IF fill.type # "SOLID" THEN FillLoop(Tail(fills), cols)
      ELSE IF ~fill.hasColor THEN [ok |-> FALSE, colors |-> cols]  \* KeyError 'color'
      ELSE
        LET hex_code == rgb_to_hex(fill.color.r, fill.color.g, fill.color.b)
        IN  FillLoop(Tail(fills), Upsert(cols, <<"c">> \o hex_code, <<"#">> \o hex_code))

\* mutation of style_key: the font name is left out of the key
StyleKeyWithoutFont(fontSize, color, fontWeight, fontName) ==
    FormatInt(fontSize) \o <<"_">> \o color \o <<"_">> \o FormatInt(fontWeight)

\* f"{fontSize}_{color}_{fontWeight}_{fontName}"
style_key(fontSize, color, fontWeight, fontName) ==
    FormatInt(fontSize) \o <<"_">> \o color \o <<"_">> \o FormatInt(fontWeight)
        \o <<"_">> \o fontName

\* main.py:  f"text{fontSize}c{color}w{fontWeight}{fontName}"
\* by id:    f"textStyle{fontSize}c{color}{fontName}{fontWeight}"
style_name(s, fontSize, color, fontWeight, fontName) ==
    IF s = "main"
    THEN <<"t","e","x","t">> \o FormatInt(fontSize) \o <<"c">> \o color
            \o <<"w">> \o FormatInt(fontWeight) \o fontName
    ELSE <<"t","e","x","t","S","t","y","l","e">> \o FormatInt(fontSize) \o <<"c">>
            \o color \o fontName \o FormatInt(fontWeight)

\* the "if node.get('type') == 'TEXT'" block
TextStep(s, node, acc) ==
    IF node.type # "TEXT" THEN acc
    ELSE
      LET ts == parse_text_style(node) IN
      IF ts.fontFamily.t # "str" THEN [acc EXCEPT !.ok = FALSE]   \* re.sub: TypeError
      ELSE
        LET fontName == Sanitize(ts.fontFamily.s)
            style_def == [name |-> style_name(s, ts.fontSize, ts.color, ts.fontWeight, fontName),
                          fontFamily |-> ts.fontFamily.s,
                          color |-> ts.color,
                          fontSize |-> ts.fontSize,
                          fontWeight |-> ts.fontWeight]
            key == style_key(ts.fontSize, ts.color, ts.fontWeight, fontName)
        IN  IF key \in acc.unique_styles THEN acc
            ELSE [acc EXCEPT !.unique_styles = @ \cup {key},
                             !.text_styles = Append(@, style_def)]

RECURSIVE parse_node(_, _, _)
parse_node(s, node, acc) ==
    LET f == IF node.hasFills THEN FillLoop(node.fills, acc.colors)
             ELSE [ok |-> TRUE, colors |-> acc.colors]
        a1 == [acc EXCEPT !.colors = f.colors, !.ok = f.ok]
        a2 == IF a1.ok THEN TextStep(s, node, a1) ELSE a1
        \* for child in node["children"]: parse_node(child)
        Loop[i \in 1..(Len(node.children) + 1)] ==
            IF i = 1 THEN a2
            ELSE IF Loop[i - 1].ok THEN parse_node(s, node.children[i - 1], Loop[i - 1])
            ELSE Loop[i - 1]
    IN  IF a2.ok /\ node.hasChildren THEN Loop[Len(node.children) + 1] ELSE a2

EmptyAcc == [colors |-> <<>>, text_styles |-> <<>>, unique_styles |-> {}, ok |-> TRUE]

(***************************************************************************)
(* The renderers.  A written file is modelled by the sequence of the       *)
(* entries it holds, in the order they are emitted.                        *)
(***************************************************************************)
\* the characters of the model in increasing code point order
CodeOrder ==
    <<" ","#","0","1","2","3","4","5","6","7","8","9","A","B","C","D","E","F",
      "N","R","S","_","a","b","c","d","e","l","n","o","r","s","t","u","w","x","y">>

Ord(ch) == CHOOSE i \in 1..Len(CodeOrder) : CodeOrder[i] = ch

\* Python's < on str
RECURSIVE StrLess(_, _)
StrLess(a, b) ==
    IF b = <<>> THEN FALSE
    ELSE IF a = <<>> THEN TRUE
    ELSE IF Head(a) # Head(b) THEN Ord(Head(a)) < Ord(Head(b))
    ELSE StrLess(Tail(a), Tail(b))

\* sorted(colors.items()): the keys of a dict are distinct, so the items are
\* ordered by key
RECURSIVE SortedItems(_, _)
SortedItems(cols, keys) ==
    IF keys = {} THEN <<>>
    ELSE LET m == CHOOSE k \in keys : \A o \in keys \ {k} : StrLess(k, o)
         IN  <<[name |-> m, value |-> cols[m]]>> \o SortedItems(cols, keys \ {m})

save_colors_xml(cols) == SortedItems(cols, DOMAIN cols)

\* mutation of SortKeyLess: the weight is left out of the sort key
SortKeyWithoutWeight(x, y) ==
    \/ x.fontSize < y.fontSize
    \/ x.fontSize = y.fontSize /\ StrLess(x.color, y.color)

\* the sort key lambda x: (x['fontSize'], x['color'], x['fontWeight']) and
\* Python's < on such tuples
SortKeyLess(x, y) ==
    \/ x.fontSize < y.fontSize
    \/ x.fontSize = y.fontSize /\ StrLess(x.color, y.color)
    \/ x.fontSize = y.fontSize /\ x.color = y.color /\ x.fontWeight < y.fontWeight

\* sorted(seq, key=...) is stable: an element goes after every element
\* already placed that is not greater than it
RECURSIVE InsertSorted(_, _)
InsertSorted(sorted, x) ==
    IF sorted = <<>> THEN <<x>>
    ELSE IF SortKeyLess(x, Head(sorted)) THEN <<x>> \o sorted
    ELSE <<Head(sorted)>> \o InsertSorted(Tail(sorted), x)

RECURSIVE SortedStyles(_)
SortedStyles(styles) ==
    IF styles = <<>> THEN <<>>
    ELSE InsertSorted(SortedStyles(SubSeq(styles, 1, Len(styles) - 1)), styles[Len(styles)])

\* one TextStyle(...) declaration per style, in sorted order
save_text_styles_dart(styles) ==
    LET sorted_styles == SortedStyles(styles)
    IN  [i \in 1..Len(sorted_styles) |->
            [name |-> sorted_styles[i].name,
             fontFamily |-> sorted_styles[i].fontFamily,
             color_name |-> <<"c">> \o sorted_styles[i].color,
             fontSize |-> sorted_styles[i].fontSize,
             fontWeight |-> sorted_styles[i].fontWeight]]

(***************************************************************************)
(* Inputs: the responses of the Figma API that the model explores.         *)
(***************************************************************************)
Rgba(r, g, b) == [r |-> r, g |-> g, b |-> b]
Red == Rgba(<<1, 1>>, <<0, 1>>, <<0, 1>>)
Black == Rgba(<<0, 1>>, <<0, 1>>, <<0, 1>>)
Grey == Rgba(<<1, 2>>, <<1, 2>>, <<1, 2>>)

Solid(c) == [hasType |-> TRUE, type |-> "SOLID", hasColor |-> TRUE, color |-> c]
Gradient == [hasType |-> TRUE, type |-> "GRADIENT_LINEAR", hasColor |-> FALSE, color |-> Black]
NoTypeFill == [hasType |-> FALSE, type |-> "", hasColor |-> TRUE, color |-> Red]
NoColorFill == [hasType |-> TRUE, type |-> "SOLID", hasColor |-> FALSE, color |-> Black]

Style(family, weight, size) == [fontFamily |-> family, fontWeight |-> weight, fontSize |-> size]
NoStyle == Style(Absent, Absent, Absent)

Node(type, fills, style, children) ==
    [type |-> type,
     hasFills |-> fills.has, fills |-> fills.val,
     hasStyle |-> style.has, style |-> style.val,
     hasChildren |-> children.has, children |-> children.val]

Some(v) == [has |-> TRUE, val |-> v]
NoFills == [has |-> FALSE, val |-> <<>>]
NoStyleKey == [has |-> FALSE, val |-> NoStyle]
NoChildren == [has |-> FALSE, val |-> <<>>]

FontF == JStr(<<"F">>)
W400 == JNum(400, 1)
S16 == JNum(16, 1)

\* styles: the font family varies, then the weight, then the size
StyleInputs ==
    {Style(fam, W400, S16) :
        fam \in {Absent, JStr(<<>>), FontF, JStr(<<"F", "1">>), JStr(<<"F", " ", "1">>),
                 JNum(7, 1)}}
    \cup {Style(FontF, w, S16) : w \in {Absent, JNum(1400, 1)}}
    \cup {Style(FontF, W400, sz) : sz \in {Absent, JNum(33, 2), JStr(<<"x">>)}}
    \cup {Style(JStr(<<"0", "F">>), JNum(140, 1), S16)}

FillInputs ==
    {NoFills, Some(<<Solid(Red)>>), Some(<<Solid(Black)>>),
     Some(<<Gradient, Solid(Red)>>), Some(<<Solid(Red), Solid(Black)>>),
     Some(<<NoTypeFill>>), Some(<<Solid(Red), NoTypeFill>>), Some(<<NoColorFill>>)}

TextLeaves ==
    {Node("TEXT", Some(<<Solid(Red)>>), Some(st), NoChildren) : st \in StyleInputs}
    \cup {Node("TEXT", f, Some(Style(FontF, W400, S16)), NoChildren) : f \in FillInputs}
    \cup {Node("TEXT", f, NoStyleKey, NoChildren) : f \in {NoFills, Some(<<Solid(Red)>>)}}

ShapeLeaves ==
    {Node("RECTANGLE", f, NoStyleKey, NoChildren) :
        f \in {Some(<<Solid(Red)>>), Some(<<Solid(Grey), Solid(Red)>>), Some(<<NoTypeFill>>)}}

Leaves == TextLeaves \cup ShapeLeaves

\* a GROUP around one leaf gives the trees a third level
Groups ==
    {Node("GROUP", NoFills, NoStyleKey, Some(<<l>>)) :
        l \in {Node("TEXT", NoFills, NoStyleKey, NoChildren),
               Node("RECTANGLE", Some(<<Solid(Black)>>), NoStyleKey, NoChildren)}}

SeqsUpTo(S, n) == UNION {[1..k -> S] : k \in 0..n}

Trees ==
    {Node("FRAME", NoFills, NoStyleKey, Some(kids)) : kids \in SeqsUpTo(Leaves \cup Groups, MaxChildren)}
    \cup {Node("FRAME", Some(<<Solid(Red)>>), NoStyleKey, NoChildren)}
    \cup Leaves

NoNode == Node("", NoFills, NoStyleKey, NoChildren)
SmallTree == Node("FRAME", Some(<<Solid(Red)>>), NoStyleKey, NoChildren)

\* an entry of the "nodes" mapping: null, or an object with or without "document"
NullEntry == [isNull |-> TRUE, hasDocument |-> FALSE, document |-> NoNode]
NoDocEntry == [isNull |-> FALSE, hasDocument |-> FALSE, document |-> NoNode]
DocEntry(t) == [isNull |-> FALSE, hasDocument |-> TRUE, document |-> t]

Response(status, json_ok, hasDocument, document, nodes) ==
    [status |-> status, json_ok |-> json_ok, hasDocument |-> hasDocument,
     document |-> document, nodes |-> nodes]

NoNodes == [k \in {} |-> NullEntry]

\* the responses to GET /v1/files/{FILE_KEY}
FileResponses ==
    {Response(HttpOk, TRUE, TRUE, t, NoNodes) : t \in Trees}
    \cup {Response(HttpOk, TRUE, FALSE, NoNode, NoNodes),
          Response(HttpOk, FALSE, FALSE, NoNode, NoNodes),
          Response(404, TRUE, FALSE, NoNode, NoNodes),
          Response(403, TRUE, TRUE, SmallTree, NoNodes)}

SmallEntries == {NullEntry, NoDocEntry, DocEntry(SmallTree)}

\* the responses to GET /v1/files/{FILE_KEY}/nodes?ids={NODE_ID}
NodesMaps ==
    {[k \in {NODE_ID} |-> DocEntry(t)] : t \in Trees}
    \cup {[k \in {"other_id"} |-> DocEntry(t)] : t \in Leaves}
    \cup UNION {[K -> SmallEntries] : K \in SUBSET {NODE_ID, "other_id", "third_id"}}

NodeResponses ==
    {Response(HttpOk, TRUE, FALSE, NoNode, m) : m \in NodesMaps}
    \cup {Response(HttpOk, FALSE, FALSE, NoNode, NoNodes),
          Response(404, TRUE, FALSE, NoNode, NoNodes),
          Response(403, TRUE, FALSE, NoNode, [k \in {NODE_ID} |-> DocEntry(SmallTree)])}

(***************************************************************************)
(* process_figma_file, one action per step.  pc is the position in the     *)
(* function; "returned" is an early return after an error message,         *)
(* "crashed" an exception that nothing catches.                            *)
(***************************************************************************)
Unwritten == [written |-> FALSE, content |-> <<>>]
NoRgb == <<<<0, 1>>, <<0, 1>>, <<0, 1>>>>

Init ==
    /\ script \in {"main", "by_id"}
    /\ response \in (IF script = "main" THEN FileResponses ELSE NodeResponses)
    /\ pc = "fetch"
    /\ err = "none"
    /\ reported_keys = {}
    /\ root_node = NoNode
    /\ colors = <<>>
    /\ text_styles = <<>>
    /\ unique_styles = {}
    /\ colors_file = Unwritten
    /\ styles_file = Unwritten
    /\ rgb_in = NoRgb
    /\ hex_out = <<>>

\* mutation of Fetch: the status of the response is not checked
FetchIgnoresStatus ==
    /\ pc = "fetch"
    /\ IF ~response.json_ok THEN pc' = "crashed" /\ err' = "json"
       ELSE pc' = "resolve" /\ err' = err
    /\ UNCHANGED <<script, response, reported_keys, root_node, colors, text_styles, unique_styles,
                   colors_file, styles_file, rgb_in, hex_out>>

\* requests.get, the status check and response.json()
Fetch ==
    /\ pc = "fetch"
    /\ IF response.status # HttpOk THEN pc' = "returned" /\ err' = "http"
       ELSE IF ~response.json_ok THEN pc' = "crashed" /\ err' = "json"
       ELSE pc' = "resolve" /\ err' = err
    /\ UNCHANGED <<script, response, reported_keys, root_node, colors, text_styles, unique_styles,
                   colors_file, styles_file, rgb_in, hex_out>>

\* mutation of TargetNodeData: with several entries and no match, one is picked
PickAnyEntry(nodes_map) ==
    IF NODE_ID \in DOMAIN nodes_map /\ ~nodes_map[NODE_ID].isNull
    THEN [found |-> TRUE, entry |-> nodes_map[NODE_ID]]
    ELSE IF DOMAIN nodes_map # {}
    THEN [found |-> TRUE, entry |-> nodes_map[CHOOSE k \in DOMAIN nodes_map : TRUE]]
    ELSE [found |-> FALSE, entry |-> NullEntry]

\* nodes_map.get(NODE_ID) and the fallback to the single entry of the mapping
TargetNodeData(nodes_map) ==
    IF NODE_ID \in DOMAIN nodes_map /\ ~nodes_map[NODE_ID].isNull
    THEN [found |-> TRUE, entry |-> nodes_map[NODE_ID]]
    ELSE IF Cardinality(DOMAIN nodes_map) = 1
    THEN [found |-> TRUE, entry |-> nodes_map[CHOOSE k \in DOMAIN nodes_map : TRUE]]
    ELSE [found |-> FALSE, entry |-> NullEntry]

\* by id: the lookup of the target node and of its "document";
\* main.py: figma_data["document"]
Resolve ==
    /\ pc = "resolve"
    /\ IF script = "main"
       THEN IF response.hasDocument
            THEN /\ pc' = "walk" /\ err' = err /\ root_node' = response.document
                 /\ reported_keys' = reported_keys
            ELSE /\ pc' = "crashed" /\ err' = "no_document" /\ root_node' = root_node
                 /\ reported_keys' = reported_keys
       ELSE LET target == TargetNodeData(response.nodes) IN
            IF ~target.found
            THEN /\ pc' = "returned" /\ err' = "node_not_found" /\ root_node' = root_node
                 /\ reported_keys' = DOMAIN response.nodes
            ELSE IF target.entry.isNull         \* None.get: AttributeError
            THEN /\ pc' = "crashed" /\ err' = "null_entry" /\ root_node' = root_node
                 /\ reported_keys' = reported_keys
            ELSE IF ~target.entry.hasDocument
            THEN /\ pc' = "returned" /\ err' = "no_document" /\ root_node' = root_node
                 /\ reported_keys' = reported_keys
            ELSE /\ pc' = "walk" /\ err' = err /\ root_node' = target.entry.document
                 /\ reported_keys' = reported_keys
    /\ UNCHANGED <<script, response, colors, text_styles, unique_styles,
                   colors_file, styles_file, rgb_in, hex_out>>

\* parse_node(root_node)
Walk ==
    /\ pc = "walk"
    /\ LET acc == parse_node(script, root_node, EmptyAcc) IN
         /\ colors' = acc.colors
         /\ text_styles' = acc.text_styles
         /\ unique_styles' = acc.unique_styles
         /\ IF acc.ok THEN pc' = "save_colors" /\ err' = err
            ELSE pc' = "crashed" /\ err' = "node_error"
    /\ UNCHANGED <<script, response, reported_keys, root_node, colors_file, styles_file, rgb_in, hex_out>>

SaveColors ==
    /\ pc = "save_colors"
    /\ colors_file' = [written |-> TRUE, content |-> save_colors_xml(colors)]
    /\ pc' = "save_styles"
    /\ UNCHANGED <<script, response, reported_keys, err, root_node, colors, text_styles, unique_styles,
                   styles_file, rgb_in, hex_out>>

SaveTextStyles ==
    /\ pc = "save_styles"
    /\ styles_file' = [written |-> TRUE, content |-> save_text_styles_dart(text_styles)]
    /\ pc' = "done"
    /\ UNCHANGED <<script, response, reported_keys, err, root_node, colors, text_styles, unique_styles,
                   colors_file, rgb_in, hex_out>>

Next == Fetch \/ Resolve \/ Walk \/ SaveColors \/ SaveTextStyles

Spec == Init /\ [][Next]_vars

(***************************************************************************)
(* The converters as pure functions: the channels are drawn from the grid  *)
(* n / 2^GridBits, which binary floating point represents exactly.         *)
(***************************************************************************)
GridDen == 2 ^ GridBits
Grid == {<<n, GridDen>> : n \in 0..GridDen}

InitHex ==
    /\ script = "hex"
    /\ response = Response(0, FALSE, FALSE, NoNode, NoNodes)
    /\ pc = "convert"
    /\ err = "none"
    /\ reported_keys = {}
    /\ root_node = NoNode
    /\ colors = <<>>
    /\ text_styles = <<>>
    /\ unique_styles = {}
    /\ colors_file = Unwritten
    /\ styles_file = Unwritten
    /\ rgb_in \in Grid \X Grid \X Grid
    /\ hex_out = <<>>

ConvertRgb ==
    /\ pc = "convert"
    /\ hex_out' = rgb_to_hex(rgb_in[1], rgb_in[2], rgb_in[3])
    /\ pc' = "rgb"
    /\ UNCHANGED <<script, response, reported_keys, err, root_node, colors, text_styles, unique_styles,
                   colors_file, styles_file, rgb_in>>

ConvertRgba ==
    /\ pc = "convert"
    /\ hex_out' = rgba_to_hex(Rgba(rgb_in[1], rgb_in[2], rgb_in[3]))
    /\ pc' = "rgba"
    /\ UNCHANGED <<script, response, reported_keys, err, root_node, colors, text_styles, unique_styles,
                   colors_file, styles_file, rgb_in>>

NextHex == ConvertRgb \/ ConvertRgba

SpecHex == InitHex /\ [][NextHex]_vars

(***************************************************************************)
(* Properties.                                                             *)
(***************************************************************************)
\* the walk has run to its end without an exception
Walked == pc \in {"save_colors", "save_styles", "done"}

RECURSIVE NodesOf(_)
NodesOf(node) ==
    {node} \cup (IF node.hasChildren
                 THEN UNION {NodesOf(node.children[i]) : i \in 1..Len(node.children)}
                 ELSE {})

TextNodes(tree) == {n \in NodesOf(tree) : n.type = "TEXT"}

Range(seq) == {seq[i] : i \in 1..Len(seq)}

\* the uniqueness tuple (fontSize, color, fontWeight, sanitized font name)
NodeTuple(n) ==
    LET ts == parse_text_style(n)
    IN  <<ts.fontSize, ts.color, ts.fontWeight, Sanitize(ts.fontFamily.s)>>

EntryTuple(e) == <<e.fontSize, e.color, e.fontWeight, Sanitize(e.fontFamily)>>

\* C1: after a completed walk the text-style list holds exactly one entry for
\* each distinct tuple (fontSize, color, fontWeight, sanitized font name) that
\* occurs on a TEXT node of the tree: none is missing, none is repeated.
C1_Deduplication ==
    Walked =>
        LET tuples == {NodeTuple(n) : n \in TextNodes(root_node)}
        IN  /\ {EntryTuple(e) : e \in Range(text_styles)} = tuples
            /\ Len(text_styles) = Cardinality(tuples)

\* two different TEXT children with the same tuple gave one entry
C1_Witness ==
    /\ pc = "done"
    /\ root_node.hasChildren /\ Len(root_node.children) = 2
    /\ root_node.children[1].type = "TEXT" /\ root_node.children[2].type = "TEXT"
    /\ root_node.children[1] # root_node.children[2]
    /\ NodeTuple(root_node.children[1]) = NodeTuple(root_node.children[2])
    /\ Len(text_styles) = 1

\* C2: by id, when no key of "nodes" is the requested NODE_ID, the run uses
\* the sole entry if there is exactly one, and otherwise returns reporting the
\* available keys, with nothing walked and no file written.
C2_NodeResolution ==
    (/\ script = "by_id"
     /\ response.status = HttpOk /\ response.json_ok
     /\ NODE_ID \notin DOMAIN response.nodes
     /\ pc \notin {"fetch", "resolve"})
    => IF Cardinality(DOMAIN response.nodes) = 1
       THEN LET sole == response.nodes[CHOOSE k \in DOMAIN response.nodes : TRUE]
            IN  /\ err # "node_not_found"
                /\ (~sole.isNull /\ sole.hasDocument) => root_node = sole.document /\ pc # "returned"
       ELSE /\ pc = "returned" /\ err = "node_not_found"
            /\ reported_keys = DOMAIN response.nodes
            /\ root_node = NoNode /\ colors = <<>> /\ text_styles = <<>>
            /\ ~colors_file.written /\ ~styles_file.written

\* two entries, none of them the requested one: the run has returned
C2_Witness ==
    /\ script = "by_id"
    /\ NODE_ID \notin DOMAIN response.nodes
    /\ Cardinality(DOMAIN response.nodes) = 2
    /\ \E k \in DOMAIN response.nodes : response.nodes[k].hasDocument
    /\ pc = "returned" /\ err = "node_not_found"

\* the response cannot be used: the fetch failed, or the tree is not there
FatalInput ==
    \/ response.status # HttpOk
    \/ ~response.json_ok
    \/ script = "main" /\ ~response.hasDocument
    \/ /\ script = "by_id"
       /\ \/ /\ \/ NODE_ID \notin DOMAIN response.nodes
                \/ response.nodes[NODE_ID].isNull
             /\ Cardinality(DOMAIN response.nodes) # 1
          \/ /\ NODE_ID \in DOMAIN response.nodes
             /\ ~response.nodes[NODE_ID].isNull
             /\ ~response.nodes[NODE_ID].hasDocument
          \/ /\ Cardinality(DOMAIN response.nodes) = 1
             /\ \A k \in DOMAIN response.nodes : ~response.nodes[k].hasDocument

\* C3: when the fetch fails or the response is structurally unusable the run
\* stops before the walk and writes neither file; a file is written only after
\* the walk has completed.
C3_NoPartialOutput ==
    /\ FatalInput =>
          /\ pc \in {"fetch", "resolve", "returned", "crashed"}
          /\ ~colors_file.written /\ ~styles_file.written
    /\ (colors_file.written \/ styles_file.written) =>
          /\ pc \in {"save_styles", "done"}
          /\ LET acc == parse_node(script, root_node, EmptyAcc)
             IN  acc.ok /\ colors = acc.colors /\ text_styles = acc.text_styles

\* a 403 response whose body would hold a tree: the run has returned
C3_Witness ==
    /\ response.status # HttpOk
    /\ response.hasDocument \/ response.nodes # NoNodes
    /\ pc = "returned" /\ err = "http"
    /\ ~colors_file.written /\ ~styles_file.written

\* C4: a malformed node never aborts the run: once the tree has been resolved
\* and walked, the run goes on to generate both files.
C4_NodeErrorsRecovered ==
    (root_node # NoNode /\ pc # "walk") => Walked

\* reading the four fields of the node raises an error
ReadError(n) ==
    LET fills == IF n.hasFills THEN n.fills ELSE <<>>
        NotSolidBefore(i) == \A j \in 1..(i - 1) : fills[j].hasType /\ fills[j].type # "SOLID"
    IN  \/ ~n.hasStyle
        \/ n.style.fontSize.t \in {"null", "str"} /\ ~IsDecimal(n.style.fontSize.s)
        \/ \E i \in 1..Len(fills) : ~fills[i].hasType /\ NotSolidBefore(i)
        \/ \E i \in 1..Len(fills) :
              /\ fills[i].hasType /\ fills[i].type = "SOLID" /\ ~fills[i].hasColor
              /\ NotSolidBefore(i)

\* the values the fallback policy prescribes for a TEXT node
ExpectedStyle(n) ==
    IF ReadError(n)
    THEN [fontFamily |-> JStr(FontNotFound), fontWeight |-> 400, fontSize |-> 14,
          color |-> <<"0","0","0","0","0","0">>]
    ELSE
      LET st == n.style
          fills == IF n.hasFills THEN n.fills ELSE <<>>
          solids == {i \in 1..Len(fills) : fills[i].type = "SOLID"}
          first == CHOOSE i \in solids : \A j \in solids : i <= j
      IN  [fontFamily |-> IF st.fontFamily.t \in {"absent", "null"} \/ st.fontFamily = JStr(<<>>)
                             \/ st.fontFamily = JNum(0, 1)
                          THEN JStr(FontNotFound) ELSE st.fontFamily,
           fontWeight |-> IF st.fontWeight.t = "absent" THEN 400 ELSE st.fontWeight.n,
           fontSize |-> IF st.fontSize.t = "absent" THEN 14
                        ELSE IF st.fontSize.t = "str" THEN ParseDecimal(st.fontSize.s)
                        ELSE st.fontSize.n \div st.fontSize.d,
           color |-> IF solids = {} THEN <<"0","0","0","0","0","0">>
                     ELSE rgba_to_hex(fills[first].color)]

\* C5: parse_text_style returns the full fallback tuple ("FontNotFound", 400,
\* 14, "000000") whenever reading a field raises an error, and otherwise
\* defaults the absent fields one by one; after a completed walk every TEXT
\* node is represented by exactly one entry carrying those values.
C5_FallbackPolicy ==
    /\ \A n \in TextNodes(root_node) : parse_text_style(n) = ExpectedStyle(n)
    /\ Walked =>
          \A n \in TextNodes(root_node) :
              LET x == ExpectedStyle(n)
              IN  Cardinality({i \in 1..Len(text_styles) :
                      /\ Sanitize(text_styles[i].fontFamily) = Sanitize(x.fontFamily.s)
                      /\ text_styles[i].fontWeight = x.fontWeight
                      /\ text_styles[i].fontSize = x.fontSize
                      /\ text_styles[i].color = x.color}) = 1

\* a TEXT node without style and fills next to one whose fontSize cannot be
\* read (its family and fill are valid): one fallback entry stands for both
C5_Witness ==
    /\ pc = "done"
    /\ \E n \in TextNodes(root_node) : ~n.hasStyle /\ ~n.hasFills
    /\ \E n \in TextNodes(root_node) :
          /\ n.hasStyle /\ n.style.fontSize.t = "str" /\ n.style.fontFamily = FontF
          /\ n.hasFills /\ n.fills = <<Solid(Red)>>
    /\ Len(text_styles) = 1
    /\ text_styles[1].fontFamily = FontNotFound
    /\ text_styles[1].fontWeight = 400
    /\ text_styles[1].fontSize = 14
    /\ text_styles[1].color = <<"0","0","0","0","0","0">>

\* the composite sort key of an emitted style declaration
EmittedKey(d) == [fontSize |-> d.fontSize, color |-> Tail(d.color_name), fontWeight |-> d.fontWeight]

ColorsStrictlySorted ==
    \A i \in 1..(Len(colors_file.content) - 1) :
        StrLess(colors_file.content[i].name, colors_file.content[i + 1].name)

KeyLess(x, y) ==
    \/ x.fontSize < y.fontSize
    \/ x.fontSize = y.fontSize /\ StrLess(x.color, y.color)
    \/ x.fontSize = y.fontSize /\ x.color = y.color /\ x.fontWeight < y.fontWeight

\* C6 as stated: both outputs are strictly sorted, the text styles by the
\* composite key (fontSize, color, fontWeight).
C6_StrictlySorted ==
    pc = "done" =>
        /\ ColorsStrictlySorted
        /\ \A i \in 1..(Len(styles_file.content) - 1) :
              KeyLess(EmittedKey(styles_file.content[i]), EmittedKey(styles_file.content[i + 1]))

\* C6 amended: the colors are strictly sorted by key; the text styles are
\* sorted by the composite key (fontSize, color, fontWeight) without
\* descending, and two entries with the same composite key differ in their
\* sanitized font name.
C6_Sorted ==
    pc = "done" =>
        /\ ColorsStrictlySorted
        /\ {colors_file.content[i].name : i \in 1..Len(colors_file.content)} = DOMAIN colors
        /\ Len(styles_file.content) = Len(text_styles)
        /\ \A i \in 1..Len(styles_file.content) : \A j \in (i + 1)..Len(styles_file.content) :
              LET x == styles_file.content[i]
                  y == styles_file.content[j]
              IN  /\ ~KeyLess(EmittedKey(y), EmittedKey(x))
                  /\ EmittedKey(x) = EmittedKey(y)
                        => Sanitize(x.fontFamily) # Sanitize(y.fontFamily)

\* styles that differ only in the weight were met in descending order and
\* are emitted in ascending order
C6_Witness ==
    /\ pc = "done"
    /\ Len(text_styles) = 2 /\ Len(styles_file.content) = 2
    /\ text_styles[1].fontSize = text_styles[2].fontSize
    /\ text_styles[1].color = text_styles[2].color
    /\ text_styles[1].fontWeight > text_styles[2].fontWeight
    /\ styles_file.content[1].fontWeight < styles_file.content[2].fontWeight
    /\ Len(colors_file.content) >= 2

SolidFillsOf(tree) ==
    {f \in UNION {Range(n.fills) : n \in {m \in NodesOf(tree) : m.hasFills}} :
        f.hasType /\ f.type = "SOLID" /\ f.hasColor}

\* {"c" + hex -> "#" + hex : hex is the code of a SOLID fill of the tree}
ExpectedColors(tree) ==
    LET codes == {rgb_to_hex(f.color.r, f.color.g, f.color.b) : f \in SolidFillsOf(tree)}
    IN  [k \in {<<"c">> \o h : h \in codes} |-> <<"#">> \o Tail(k)]

Orderings(seq) ==
    {[i \in 1..Len(seq) |-> seq[p[i]]] :
        p \in {q \in [1..Len(seq) -> 1..Len(seq)] :
                 \A i, j \in 1..Len(seq) : i # j => q[i] # q[j]}}

\* the trees that differ from the given one in the order of the children and
\* of the fills of its nodes
RECURSIVE Reorderings(_)
Reorderings(node) ==
    LET n == Len(node.children)
        kidSets == [i \in 1..n |-> Reorderings(node.children[i])]
        kidSeqs == {ks \in [1..n -> UNION {kidSets[i] : i \in 1..n}] :
                       \A i \in 1..n : ks[i] \in kidSets[i]}
    IN  {[node EXCEPT !.fills = fs, !.children = cs] :
            fs \in Orderings(node.fills),
            cs \in UNION {Orderings(ks) : ks \in kidSeqs}}

\* C7: after a completed walk the color mapping is exactly
\* {"c"+hex -> "#"+hex : hex the code of a SOLID fill of the tree}; walking
\* the tree with its children and fills in any other order gives the same
\* mapping, and so does walking it a second time into the mapping.
C7_ColorsOrderIndependent ==
    /\ Walked => colors = ExpectedColors(root_node)
    /\ pc = "save_colors" =>
        /\ \A t \in Reorderings(root_node) :
              LET acc == parse_node(script, t, EmptyAcc) IN acc.ok /\ acc.colors = colors
        /\ parse_node(script, root_node,
                      [colors |-> colors, text_styles |-> text_styles,
                       unique_styles |-> unique_styles, ok |-> TRUE]).colors = colors

\* two children carry different SOLID colors, one of them twice
C7_Witness ==
    /\ pc = "save_colors"
    /\ root_node.hasChildren /\ Len(root_node.children) = 2
    /\ Cardinality(Reorderings(root_node)) >= 4
    /\ Cardinality(SolidFillsOf(root_node)) >= 2
    /\ Cardinality(DOMAIN colors) = 2
    /\ \E i \in 1..2 : root_node.children[i].hasFills /\ Len(root_node.children[i].fills) = 2
    /\ root_node.children[1].fills # root_node.children[2].fills

\* the two-character groups of a hex code, decoded
HexValue(ch) == (CHOOSE k \in 1..16 : HexDigits[k] = ch) - 1
Decoded(hex, i) == 16 * HexValue(hex[2 * i - 1]) + HexValue(hex[2 * i])

\* C8: for channels in [0,1], rgb_to_hex and rgba_to_hex return 6 uppercase
\* hexadecimal characters; each pair decodes to an integer in 0..255 that,
\* divided by 255, is within 1/255 of the channel; (0,0,0) gives "000000" and
\* (1,1,1) gives "FFFFFF".
C8_HexRoundTrip ==
    pc \in {"rgb", "rgba"} =>
        /\ Len(hex_out) = 6
        /\ \A i \in 1..6 : \E k \in 1..16 : HexDigits[k] = hex_out[i]
        /\ \A i \in 1..3 :
              LET v == Decoded(hex_out, i)
                  n == rgb_in[i][1]
                  d == rgb_in[i][2]
              IN  /\ v \in 0..255
                  /\ v * d - 255 * n <= d
                  /\ 255 * n - v * d <= d
        /\ (\A i \in 1..3 : rgb_in[i][1] = 0) => hex_out = <<"0","0","0","0","0","0">>
        /\ (\A i \in 1..3 : rgb_in[i][1] = rgb_in[i][2]) => hex_out = <<"F","F","F","F","F","F">>

\* the channel 1/2 scales to the tie 127.5, which rounds to the even 128
C8_Witness ==
    /\ pc = "rgb"
    /\ rgb_in[1][1] * 2 = rgb_in[1][2]
    /\ rgb_in[2][1] = rgb_in[2][2]
    /\ rgb_in[3][1] = 0
    /\ hex_out = <<"8","0","F","F","0","0">>

\* C9: the entries of the text-style list have pairwise different names.
C9_NamesCollisionFree ==
    Walked =>
        \A i, j \in 1..Len(text_styles) :
            i # j => text_styles[i].name # text_styles[j].name

\* C10: every color token that the text-style file references is a key of
\* the color stylesheet.
C10_ColorTokensDefined ==
    pc = "done" =>
        \A i \in 1..Len(styles_file.content) :
            \E j \in 1..Len(colors_file.content) :
                colors_file.content[j].name = styles_file.content[i].color_name

====
